---- MODULE Spec2Model ----
(***************************************************************************)
(* react-component-usage-finder: the scan of a source tree into the two    *)
(* maps componentDefinitions / componentUsages, the cycle-safe expansion   *)
(* getUsageHierarchy of one target component, and the statistics walk      *)
(* calculateStats / getStatistics over the resulting tree.                 *)
(*                                                                         *)
(* JavaScript values are modelled as follows.                              *)
(*   - an object literal is a record; a property the literal does not set  *)
(*     is absent from the record and reads as Undefined (see Prop);        *)
(*   - a string primitive that the code later treats as an object (the     *)
(*     "Circular Reference" element of usedIn) is the record [str |-> s],  *)
(*     which has none of the properties name, usedIn, definedIn;           *)
(*   - a Map is a function whose DOMAIN is the set of keys present;        *)
(*   - a Set of object literals is a sequence in insertion order: every    *)
(*     literal is a fresh reference, so Set.add never finds it present.    *)
(***************************************************************************)
EXTENDS Integers, Sequences, FiniteSets, TLC

\* ------------------------------------------------------------------ bounds
\* The scanned tree of Spec: entries of the root directory, and syntax-tree
\* nodes the visitors see over the whole run (all files together).
MaxFiles == 2
MaxVisits == 3
\* The scanned tree of DeepSpec: fewer files, more nodes, so that the usage
\* graph can hold longer cycles and a component reached along two paths.
DeepFiles == 1
DeepVisits == 5
\* Call-stack frames getUsageHierarchy may use before the engine raises
\* RangeError (the engine's limit is finite; any value above the number of
\* component names plus one is never reached by the code as written).
StackLimit == 7

\* --------------------------------------------------------------- universes
\* Identifiers that start with an upper-case letter and are alphanumeric.
Names == {"Button", "LoginForm", "Card"}
\* An identifier that is not PascalCase (an intrinsic tag, a helper function).
LowerCaseIds == {"div"}
Identifiers == Names \cup LowerCaseIds
\* A target the scan never meets.
Targets == Names \cup {"Nonexistent"}
\* Directory entries, in readdir order.
FilePaths == <<"b.tsx", "l.tsx", "c.tsx", "d.tsx">>

Null == "<null>"
Undefined == "<undefined>"
CircularReference == [str |-> "Circular Reference"]
EmptyMap == [k \in {} |-> Undefined]

\* obj[key] for a JavaScript value: Undefined when the property is absent.
Prop(obj, key) == IF key \in DOMAIN obj THEN obj[key] ELSE Undefined
\* Map.prototype.get
MapGet(map, key) == IF key \in DOMAIN map THEN map[key] ELSE Undefined
\* Map.prototype.set
MapSet(map, key, value) ==
  [k \in DOMAIN map \cup {key} |-> IF k = key THEN value ELSE map[k]]

\* /^[A-Z][A-Za-z0-9]*$/ over the identifiers of the model.
isPascalCase(str) == str \in Names

\* node: [id |-> identifier or Null, params |-> number of parameters]
isReactComponent(node) == isPascalCase(node.id) /\ node.params <= 1

VARIABLES
  fsEntries,            \* input: entries the root directory may list
  fsNodes,              \* input: nodes the files of the tree hold together
  pc,                   \* position of main/analyze/scanDirectory
  files,                \* result of fs.readdir(rootDir)
  idx,                  \* position of the for loop of scanDirectory
  eligible,             \* entries for which isReactFile held
  inflight,             \* files whose fs.readFile has not settled yet
  file,                 \* filePath of the analyzeFile that is traversing
  currentComponent,     \* the cursor of analyzeFile
  line,                 \* loc.start.line of the next node of the file
  visits,               \* nodes visited so far in the run
  analyzed,             \* files whose analyzeFile has returned
  componentDefinitions, \* Map name -> filePath
  componentUsages,      \* Map name -> Set of {component, file, line}
  reported,             \* the file this step reported through console.error
  fatal,                \* what rejected analyze (main exits with 1)
  hierarchy,            \* the value analyze resolved with
  stats                 \* the value of getStatistics(hierarchy)

vars == <<fsEntries, fsNodes, pc, files, idx, eligible, inflight, file, currentComponent, line,
          visits, analyzed, componentDefinitions, componentUsages, reported,
          fatal, hierarchy, stats>>

inputVars == <<fsEntries, fsNodes>>
scanVars == <<files, idx, eligible, inflight, file, currentComponent, line,
              visits, analyzed>>
graphVars == <<componentDefinitions, componentUsages>>
resultVars == <<hierarchy, stats>>

Start ==
  /\ pc = "start"
  /\ files = <<>>
  /\ idx = 1
  /\ eligible = {}
  /\ inflight = {}
  /\ file = Null
  /\ currentComponent = Null
  /\ line = 1
  /\ visits = 0
  /\ analyzed = <<>>
  /\ componentDefinitions = EmptyMap
  /\ componentUsages = EmptyMap
  /\ reported = Null
  /\ fatal = Null
  /\ hierarchy = Null
  /\ stats = Null

Init ==
  /\ fsEntries = MaxFiles
  /\ fsNodes = MaxVisits
  /\ Start

DeepInit ==
  /\ fsEntries = DeepFiles
  /\ fsNodes = DeepVisits
  /\ Start

\* ------------------------------------------------------------ scanDirectory
\* analyze: the two maps are created empty and fs.readdir(rootDir) resolves.
Readdir ==
  /\ pc = "start"
  /\ \E n \in 0..fsEntries : files' = SubSeq(FilePaths, 1, n)
  /\ pc' = "loop"
  /\ reported' = Null
  /\ UNCHANGED inputVars
  /\ UNCHANGED <<idx, eligible, inflight, file, currentComponent, line, visits,
                 analyzed, fatal>>
  /\ UNCHANGED <<graphVars, resultVars>>

\* fs.readdir(rootDir) rejects: nothing catches it before main.
ReaddirFails ==
  /\ pc = "start"
  /\ pc' = "fatal"
  /\ fatal' = "readdir"
  /\ reported' = Null
  /\ UNCHANGED <<inputVars, scanVars, graphVars, resultVars>>

\* One turn of the for loop on an entry that is not a React file.
StatSkip ==
  /\ pc = "loop"
  /\ idx <= Len(files)
  /\ idx' = idx + 1
  /\ reported' = Null
  /\ UNCHANGED inputVars
  /\ UNCHANGED <<pc, files, eligible, inflight, file, currentComponent, line,
                 visits, analyzed, fatal>>
  /\ UNCHANGED <<graphVars, resultVars>>

\* fs.stat rejects: nothing catches it before main.
StatFails ==
  /\ pc = "loop"
  /\ idx <= Len(files)
  /\ pc' = "fatal"
  /\ fatal' = "stat"
  /\ reported' = Null
  /\ UNCHANGED <<inputVars, scanVars, graphVars, resultVars>>

\* One turn of the for loop on a React file: analyzeFile is called and
\* awaited, and suspends in fs.readFile.
StatAnalyze ==
  /\ pc = "loop"
  /\ idx <= Len(files)
  /\ eligible' = eligible \cup {files[idx]}
  /\ inflight' = inflight \cup {files[idx]}
  /\ pc' = "await"
  /\ reported' = Null
  /\ UNCHANGED inputVars
  /\ UNCHANGED <<files, idx, file, currentComponent, line, visits, analyzed, fatal>>
  /\ UNCHANGED <<graphVars, resultVars>>

\* --------------------------------------------------------------- analyzeFile
\* fs.readFile rejects: the await is outside the try block.
ReadFileFails ==
  /\ pc = "await"
  /\ \E f \in inflight :
       /\ inflight' = inflight \ {f}
       /\ pc' = "fatal"
       /\ fatal' = "readFile"
  /\ reported' = Null
  /\ UNCHANGED inputVars
  /\ UNCHANGED <<files, idx, eligible, file, currentComponent, line, visits,
                 analyzed>>
  /\ UNCHANGED <<graphVars, resultVars>>

\* The end of analyzeFile, by return or through the catch block: the awaiting
\* loop of scanDirectory goes on with the next entry.
Returned(f) ==
  /\ analyzed' = Append(analyzed, f)
  /\ file' = Null
  /\ currentComponent' = Null
  /\ line' = 1
  /\ idx' = idx + 1
  /\ pc' = "loop"

\* parser.parse throws with no try block around it.
ParseError_notCaught ==
  /\ pc = "await"
  /\ \E f \in inflight : inflight' = inflight \ {f}
  /\ pc' = "fatal"
  /\ fatal' = "parse"
  /\ reported' = Null
  /\ UNCHANGED inputVars
  /\ UNCHANGED <<files, idx, eligible, file, currentComponent, line, visits,
                 analyzed>>
  /\ UNCHANGED <<graphVars, resultVars>>

\* fs.readFile resolves and parser.parse throws: caught, reported.
ParseError ==
  /\ pc = "await"
  /\ \E f \in inflight :
       /\ inflight' = inflight \ {f}
       /\ reported' = f
       /\ Returned(f)
  /\ UNCHANGED inputVars
  /\ UNCHANGED <<files, eligible, visits, fatal>>
  /\ UNCHANGED <<graphVars, resultVars>>

\* fs.readFile resolves and parser.parse returns: traverse starts with
\* currentComponent = null.
ParseOk ==
  /\ pc = "await"
  /\ \E f \in inflight :
       /\ inflight' = inflight \ {f}
       /\ file' = f
  /\ currentComponent' = Null
  /\ line' = 1
  /\ pc' = "visit"
  /\ reported' = Null
  /\ UNCHANGED inputVars
  /\ UNCHANGED <<files, idx, eligible, visits, analyzed, fatal>>
  /\ UNCHANGED <<graphVars, resultVars>>

\* The bookkeeping of one visited node that did not throw.
Visited ==
  /\ pc = "visit"
  /\ visits < fsNodes
  /\ visits' = visits + 1
  /\ line' = line + 1
  /\ reported' = Null
  /\ UNCHANGED inputVars
  /\ UNCHANGED <<pc, files, idx, eligible, inflight, file, analyzed,
                 fatal>>
  /\ UNCHANGED resultVars

\* The definition recorded without moving the cursor.
Define_cursorKept(name) ==
  /\ componentDefinitions' = MapSet(componentDefinitions, name, file)
  /\ UNCHANGED <<currentComponent, componentUsages>>

\* recordDefinition: the body shared by the two definition visitors.
Define(name) ==
  /\ currentComponent' = name
  /\ componentDefinitions' = MapSet(componentDefinitions, name, file)
  /\ UNCHANGED componentUsages

\* visitor FunctionDeclaration, on a declaration that has a name.
FunctionDeclaration ==
  /\ Visited
  /\ \E id \in Identifiers, params \in 1..2 :
       IF isReactComponent([id |-> id, params |-> params])
       THEN Define(id)
       ELSE UNCHANGED <<currentComponent, graphVars>>

\* visitor VariableDeclarator.
VariableDeclarator ==
  /\ Visited
  /\ \E id \in Identifiers, initIsFunction \in BOOLEAN :
       IF initIsFunction /\ isPascalCase(id)
       THEN Define(id)
       ELSE UNCHANGED <<currentComponent, graphVars>>

\* Set.prototype.add of a freshly built object literal: a new reference is
\* never already in the Set, so the element is appended.
SetAdd(set, obj) == Append(set, obj)

\* The body without `if (currentComponent)`: the edge is added whatever the
\* cursor holds.
RecordUsage_unattributed(usages, elementName, cursor, filePath, lineNo) ==
  LET withKey == IF elementName \in DOMAIN usages
                 THEN usages
                 ELSE MapSet(usages, elementName, <<>>)
  IN MapSet(withKey, elementName,
            SetAdd(withKey[elementName],
                   [component |-> cursor, file |-> filePath, line |-> lineNo]))

\* The body of the JSXElement visitor for a PascalCase element name.
RecordUsage(usages, elementName, cursor, filePath, lineNo) ==
  LET withKey == IF elementName \in DOMAIN usages
                 THEN usages
                 ELSE MapSet(usages, elementName, <<>>)
  IN IF cursor # Null
     THEN MapSet(withKey, elementName,
                 SetAdd(withKey[elementName],
                        [component |-> cursor, file |-> filePath,
                         line |-> lineNo]))
     ELSE withKey

\* visitor JSXElement.
JSXElement ==
  /\ Visited
  /\ \E elementName \in Identifiers :
       IF isPascalCase(elementName)
       THEN componentUsages' = RecordUsage(componentUsages, elementName,
                                           currentComponent, file, line)
       ELSE UNCHANGED componentUsages
  /\ UNCHANGED <<currentComponent, componentDefinitions>>

\* A visitor throws (FunctionDeclaration on `export default function () {}`
\* reads node.id.name with id null): caught, reported.
VisitorThrows ==
  /\ pc = "visit"
  /\ reported' = file
  /\ Returned(file)
  /\ UNCHANGED inputVars
  /\ UNCHANGED <<files, eligible, inflight, visits, fatal>>
  /\ UNCHANGED <<graphVars, resultVars>>

\* traverse returns: analyzeFile returns.
TraverseDone ==
  /\ pc = "visit"
  /\ Returned(file)
  /\ reported' = Null
  /\ UNCHANGED inputVars
  /\ UNCHANGED <<files, eligible, inflight, visits, fatal>>
  /\ UNCHANGED <<graphVars, resultVars>>

\* --------------------------------------------------------- getUsageHierarchy
\* What a call that needs more than StackLimit frames throws.
RangeError == [threw |-> "RangeError"]
Threw(value) == "threw" \in DOMAIN value

\* if (visited.has(componentName))
alreadyVisited_neverChecked(componentName, visited) == FALSE
alreadyVisited_addedFirst(componentName, visited) ==
  componentName \in visited \cup {componentName}
alreadyVisited(componentName, visited) == componentName \in visited

\* { name: componentName, usedIn: ["Circular Reference"] }
circularNode(componentName) ==
  [name |-> componentName, usedIn |-> <<CircularReference>>]

\* componentUsages.get(componentName) || new Set()
usagesOf(usagesMap, componentName) ==
  IF componentName \in DOMAIN usagesMap
  THEN usagesMap[componentName]
  ELSE <<>>

\* Array.from(usages).map((usage) => ({ file: usage.file, line: usage.line }))
locationsOf_firstOnly(usages) ==
  [i \in 1..(IF Len(usages) = 0 THEN 0 ELSE 1) |->
     [file |-> usages[i].file, line |-> usages[i].line]]
locationsOf_reversed(usages) ==
  [i \in 1..Len(usages) |->
     [file |-> usages[Len(usages) + 1 - i].file,
      line |-> usages[Len(usages) + 1 - i].line]]
locationsOf(usages) ==
  [i \in 1..Len(usages) |-> [file |-> usages[i].file, line |-> usages[i].line]]

RECURSIVE sharedWalk(_, _, _, _, _)
RECURSIVE sharedChildren(_, _, _, _, _, _)
\* The walk with one Set passed down by reference (visited instead of
\* new Set(visited)): the value is the node and the Set after the call.
sharedWalk(componentName, usagesMap, definitionsMap, visited, depth) ==
  IF depth > StackLimit THEN [tree |-> RangeError, visited |-> visited]
  ELSE IF componentName \in visited
  THEN [tree |-> circularNode(componentName), visited |-> visited]
  ELSE
    LET usages == usagesOf(usagesMap, componentName)
        below == sharedChildren(usages, 1, usagesMap, definitionsMap,
                                visited \cup {componentName}, depth + 1)
    IN [tree |-> [name |-> componentName,
                  definedIn |-> MapGet(definitionsMap, componentName),
                  usedIn |-> below.trees,
                  locations |-> locationsOf(usages)],
        visited |-> below.visited]

sharedChildren(usages, i, usagesMap, definitionsMap, visited, depth) ==
  IF i > Len(usages) THEN [trees |-> <<>>, visited |-> visited]
  ELSE
    LET first == sharedWalk(usages[i].component, usagesMap, definitionsMap,
                            visited, depth)
        rest == sharedChildren(usages, i + 1, usagesMap, definitionsMap,
                               first.visited, depth)
    IN [trees |-> <<first.tree>> \o rest.trees, visited |-> rest.visited]

getUsageHierarchy_sharedVisited(componentName, usagesMap, definitionsMap, visited, depth) ==
  sharedWalk(componentName, usagesMap, definitionsMap, visited, depth).tree

RECURSIVE getUsageHierarchy(_, _, _, _, _)
\* depth is the number of frames of getUsageHierarchy on the call stack;
\* added is the Set after visited.add, which every child call receives as
\* its own copy (new Set(visited)).
getUsageHierarchy(componentName, usagesMap, definitionsMap, visited, depth) ==
  IF depth > StackLimit THEN RangeError
  ELSE IF alreadyVisited(componentName, visited)
  THEN circularNode(componentName)
  ELSE
    LET added == visited \cup {componentName}
        usages == usagesOf(usagesMap, componentName)
        usedIn == [i \in 1..Len(usages) |->
                     getUsageHierarchy(usages[i].component, usagesMap,
                                       definitionsMap, added, depth + 1)]
    IN IF \E i \in 1..Len(usages) : Threw(usedIn[i])
       THEN RangeError
       ELSE [name |-> componentName,
             definedIn |-> MapGet(definitionsMap, componentName),
             usedIn |-> usedIn,
             locations |-> locationsOf(usages)]

\* ------------------------------------------------ calculateStats/getStatistics
Max(a, b) == IF a >= b THEN a ELSE b

RECURSIVE calculateStats(_, _, _)
RECURSIVE forEachChild(_, _, _, _)

\* The walk that passes over a child that is a string instead of reading
\* name, definedIn and usedIn off it.
calculateStats_stringsSkipped(node, depth, st) ==
  IF "str" \in DOMAIN node THEN st
  ELSE
    LET counted == [st EXCEPT !.totalComponents = @ \cup {Prop(node, "name")},
                              !.maxDepth = Max(@, depth)]
        filed == IF Prop(node, "definedIn") # Undefined
                 THEN [counted EXCEPT !.uniqueFiles = @ \cup {node.definedIn}]
                 ELSE counted
    IN IF "usedIn" \notin DOMAIN node \/ Len(node.usedIn) = 0
       THEN [filed EXCEPT !.leafNodes = @ + 1]
       ELSE forEachChild(node.usedIn, 1, depth, filed)

\* node.usedIn.forEach((child) => calculateStats(child, depth + 1, stats)),
\* from the i-th child on.
forEachChild(usedIn, i, depth, st) ==
  IF i > Len(usedIn) THEN st
  ELSE forEachChild(usedIn, i + 1, depth,
                    calculateStats(usedIn[i], depth + 1, st))

\* st is the stats object; the value is the object after the call.
calculateStats(node, depth, st) ==
  LET counted == [st EXCEPT !.totalComponents = @ \cup {Prop(node, "name")},
                            !.maxDepth = Max(@, depth)]
      filed == IF Prop(node, "definedIn") # Undefined
               THEN [counted EXCEPT !.uniqueFiles = @ \cup {node.definedIn}]
               ELSE counted
  IN IF "usedIn" \notin DOMAIN node \/ Len(node.usedIn) = 0
     THEN [filed EXCEPT !.leafNodes = @ + 1]
     ELSE forEachChild(node.usedIn, 1, depth, filed)

getStatistics_depthFromZero(tree) ==
  LET st == calculateStats(tree, 0,
                           [totalComponents |-> {}, maxDepth |-> 0,
                            leafNodes |-> 0, uniqueFiles |-> {}])
  IN [totalComponents |-> Cardinality(st.totalComponents),
      maxDepth |-> st.maxDepth,
      leafNodes |-> st.leafNodes,
      uniqueFiles |-> Cardinality(st.uniqueFiles)]

getStatistics(tree) ==
  LET st == calculateStats(tree, 1,
                           [totalComponents |-> {}, maxDepth |-> 0,
                            leafNodes |-> 0, uniqueFiles |-> {}])
  IN [totalComponents |-> Cardinality(st.totalComponents),
      maxDepth |-> st.maxDepth,
      leafNodes |-> st.leafNodes,
      uniqueFiles |-> Cardinality(st.uniqueFiles)]

\* ------------------------------------------------------------ analyze / main
\* for (const file of files) has no entry left: the awaited scanDirectory
\* resolves.
loopIsOver_notAwaited == TRUE
loopIsOver == idx > Len(files)

\* analyze with a getUsageHierarchy that stores the default Set it makes for
\* a component without usages (componentUsages.set(componentName, usages)).
Resolve_defaultStored ==
  /\ pc = "loop"
  /\ loopIsOver
  /\ \E targetComponent \in Targets :
       LET tree == getUsageHierarchy(targetComponent, componentUsages,
                                     componentDefinitions, {}, 1)
       IN /\ IF Threw(tree)
             THEN /\ pc' = "fatal"
                  /\ fatal' = "RangeError"
                  /\ UNCHANGED hierarchy
             ELSE /\ pc' = "resolved"
                  /\ hierarchy' = tree
                  /\ UNCHANGED fatal
          /\ componentUsages' =
               MapSet(componentUsages, targetComponent,
                      usagesOf(componentUsages, targetComponent))
  /\ reported' = Null
  /\ UNCHANGED <<inputVars, scanVars, componentDefinitions, stats>>

\* The loop of scanDirectory is over: the awaited scan resolves and analyze
\* returns getUsageHierarchy(targetComponent, ...), or rejects with what it
\* threw.
Resolve ==
  /\ pc = "loop"
  /\ loopIsOver
  /\ \E targetComponent \in Targets :
       LET tree == getUsageHierarchy(targetComponent, componentUsages,
                                     componentDefinitions, {}, 1)
       IN IF Threw(tree)
          THEN /\ pc' = "fatal"
               /\ fatal' = "RangeError"
               /\ UNCHANGED hierarchy
          ELSE /\ pc' = "resolved"
               /\ hierarchy' = tree
               /\ UNCHANGED fatal
  /\ reported' = Null
  /\ UNCHANGED <<inputVars, scanVars, graphVars, stats>>

\* main: const stats = getStatistics(hierarchy).
Summarize ==
  /\ pc = "resolved"
  /\ stats' = getStatistics(hierarchy)
  /\ pc' = "done"
  /\ reported' = Null
  /\ UNCHANGED <<inputVars, scanVars, graphVars, hierarchy, fatal>>

Scan ==
  \/ Readdir
  \/ ReaddirFails
  \/ StatSkip
  \/ StatFails
  \/ StatAnalyze
  \/ ReadFileFails
  \/ ParseError
  \/ ParseOk
  \/ FunctionDeclaration
  \/ VariableDeclarator
  \/ JSXElement
  \/ VisitorThrows
  \/ TraverseDone

Next ==
  \/ Scan
  \/ Resolve
  \/ Summarize

Spec == Init /\ [][Next]_vars
DeepSpec == DeepInit /\ [][Next]_vars

\* =================================================================== claims
\* ------------------------------------------------- the graph, read directly
Resolved == pc \in {"resolved", "done"}

\* The edges recorded for `name`, in insertion order.
Edges(name) ==
  IF name \in DOMAIN componentUsages THEN componentUsages[name] ELSE <<>>

\* The components that render `name`.
UsersOf(name) == {Edges(name)[i].component : i \in 1..Len(Edges(name))}

RECURSIVE ReachableFrom(_)
\* The components reached from those of S along "used by" edges, S included.
ReachableFrom(S) ==
  LET next == S \cup UNION {UsersOf(n) : n \in S}
  IN IF next = S THEN S ELSE ReachableFrom(next)

Reachable(root) == ReachableFrom({root})
OnCycle(name) == name \in ReachableFrom(UsersOf(name))
CycleReachable(root) == \E n \in Reachable(root) : OnCycle(n)

\* ------------------------------------------------------ the tree, read directly
IsString(value) == "str" \in DOMAIN value
\* The terminal node that stands for a revisit.
IsCircular(node) == ~IsString(node) /\ node.usedIn = <<CircularReference>>

RECURSIVE HasSentinel(_)
HasSentinel(node) ==
  /\ ~IsString(node)
  /\ \/ IsCircular(node)
     \/ \E i \in 1..Len(node.usedIn) : HasSentinel(node.usedIn[i])

RECURSIVE Capped(_, _)
\* Below `ancestors` (the names on the path down to node's parent), the
\* first node that repeats a name of its path is the two-property sentinel
\* object, whose only child is the string: nothing is expanded below it.
Capped(node, ancestors) ==
  /\ ~IsString(node)
  /\ IF node.name \in ancestors
     THEN /\ DOMAIN node = {"name", "usedIn"}
          /\ node.usedIn = <<CircularReference>>
     ELSE \A i \in 1..Len(node.usedIn) :
            Capped(node.usedIn[i], ancestors \cup {node.name})

\* C1: on any usage graph getUsageHierarchy returns (it never exhausts the
\* call stack), every path of the result that comes back to a component of
\* the path ends there with one "Circular Reference" sentinel and nothing
\* below it, and a graph with a cycle reachable from the root yields a tree
\* that holds such a sentinel.
C1_CycleTermination ==
  /\ fatal # "RangeError"
  /\ Resolved =>
       /\ Capped(hierarchy, {})
       /\ HasSentinel(hierarchy) \/ ~CycleReachable(hierarchy.name)

\* Two components that render each other: the root's child is expanded and
\* the grandchild is the sentinel for the root.
C1_Witness ==
  /\ Resolved
  /\ \E i \in 1..Len(hierarchy.usedIn) :
       LET child == hierarchy.usedIn[i]
       IN /\ ~IsCircular(child)
          /\ child.name # hierarchy.name
          /\ \E j \in 1..Len(child.usedIn) :
               /\ IsCircular(child.usedIn[j])
               /\ child.usedIn[j].name = hierarchy.name

RECURSIVE NoRevisit(_, _)
\* No expanded node bears a name of its path; a sentinel bears one.
NoRevisit(node, ancestors) ==
  /\ ~IsString(node)
  /\ IF IsCircular(node)
     THEN node.name \in ancestors
     ELSE /\ node.name \notin ancestors
          /\ \A i \in 1..Len(node.usedIn) :
               NoRevisit(node.usedIn[i], ancestors \cup {node.name})

\* C2: in a returned tree the expanded nodes of any path from the root have
\* pairwise different names; where the graph would revisit a name of the
\* path the tree has the "Circular Reference" sentinel, and only there.
C2_NoRevisitOnPath == Resolved => NoRevisit(hierarchy, {})

\* A path of three expanded components in a tree that also has a sentinel.
C2_Witness ==
  /\ Resolved
  /\ HasSentinel(hierarchy)
  /\ \E i \in 1..Len(hierarchy.usedIn) :
       /\ ~IsCircular(hierarchy.usedIn[i])
       /\ \E j \in 1..Len(hierarchy.usedIn[i].usedIn) :
            ~IsCircular(hierarchy.usedIn[i].usedIn[j])

RECURSIVE FirstSeen(_)
\* seq without the later occurrences of each element.
FirstSeen(seq) ==
  IF seq = <<>> THEN <<>>
  ELSE LET front == FirstSeen(SubSeq(seq, 1, Len(seq) - 1))
           last == seq[Len(seq)]
       IN IF \E i \in 1..Len(front) : front[i] = last
          THEN front
          ELSE Append(front, last)

\* The distinct components that render `name`, in first-seen order.
DistinctUsers(name) ==
  FirstSeen([i \in 1..Len(Edges(name)) |-> Edges(name)[i].component])

ChildNames(node) == [i \in 1..Len(node.usedIn) |-> node.usedIn[i].name]

RECURSIVE OneChildPerUser(_)
OneChildPerUser(node) ==
  \/ IsCircular(node)
  \/ /\ ChildNames(node) = DistinctUsers(node.name)
     /\ \A i \in 1..Len(node.usedIn) : OneChildPerUser(node.usedIn[i])

\* C3: the children of every expanded node are the distinct components
\* that use it, one child each, in first-seen order, however many edges a
\* using component has.
C3_OneChildPerUsingComponent == Resolved => OneChildPerUser(hierarchy)

RECURSIVE NodeCount(_)
\* The nodes of a tree: expanded nodes and sentinel nodes.
NodeCount(node) ==
  IF IsCircular(node) THEN 1
  ELSE LET below[i \in 0..Len(node.usedIn)] ==
             IF i = 0 THEN 0 ELSE below[i - 1] + NodeCount(node.usedIn[i])
       IN 1 + below[Len(node.usedIn)]

RECURSIVE NamesIn(_)
NamesIn(node) ==
  IF IsCircular(node) THEN {node.name}
  ELSE {node.name} \cup
       UNION {NamesIn(node.usedIn[i]) : i \in 1..Len(node.usedIn)}

\* No component renders the same component at two sites.
NoRepeatedEdge ==
  \A n \in DOMAIN componentUsages :
    \A i, j \in 1..Len(componentUsages[n]) :
      i # j => componentUsages[n][i].component # componentUsages[n][j].component

\* The edges into `name` from the components of `from`.
EdgesInto(name, from) ==
  UNION {{<<m, i>> : i \in {j \in 1..Len(Edges(m)) :
                                Edges(m)[j].component = name}} : m \in from}

\* Every component reached from root is reached along one path only.
TreeShaped(root) ==
  LET reached == Reachable(root)
  IN \A n \in reached \ {root} : Cardinality(EdgesInto(n, reached)) = 1

Acyclic == Resolved /\ ~CycleReachable(hierarchy.name)

\* C4, as claimed: with no cycle reachable from the root the tree has as
\* many nodes as there are components reachable from the root, and no
\* sentinel. (Stated for graphs without repeated edges, so that what
\* refutes it is a component reached along two paths.)
C4_NodeCountIsReachableCount ==
  (Acyclic /\ NoRepeatedEdge) =>
    /\ NodeCount(hierarchy) = Cardinality(Reachable(hierarchy.name))
    /\ ~HasSentinel(hierarchy)

\* C4, amended: with no cycle reachable from the root the tree has no
\* sentinel and the names of its nodes are exactly the components reachable
\* from the root; it has one node per path, so at least as many nodes as
\* reachable components, and exactly as many when every reachable component
\* is reached along one path.
C4_AcyclicNamesAreReachable ==
  Acyclic =>
    /\ ~HasSentinel(hierarchy)
    /\ NamesIn(hierarchy) = Reachable(hierarchy.name)
    /\ NodeCount(hierarchy) >= Cardinality(Reachable(hierarchy.name))
    /\ TreeShaped(hierarchy.name) =>
         NodeCount(hierarchy) = Cardinality(Reachable(hierarchy.name))

\* An acyclic graph in which a component is reached along two paths.
C4_Witness ==
  /\ Acyclic
  /\ NoRepeatedEdge
  /\ NodeCount(hierarchy) > Cardinality(Reachable(hierarchy.name))

\* C5: when the only edge of X is "X used by X", the tree of X is the
\* root with one child, the sentinel for X, and maxDepth is at most 2.
C5_SelfCycleDepthAtMostTwo ==
  (/\ pc = "done"
   /\ Len(Edges(hierarchy.name)) = 1
   /\ Edges(hierarchy.name)[1].component = hierarchy.name) =>
    /\ Len(hierarchy.usedIn) = 1
    /\ IsCircular(hierarchy.usedIn[1])
    /\ hierarchy.usedIn[1].name = hierarchy.name
    /\ stats.maxDepth <= 2

UnknownRoot ==
  /\ Resolved
  /\ hierarchy.name \notin DOMAIN componentDefinitions
  /\ hierarchy.name \notin DOMAIN componentUsages

\* C6: for a root that is a key of neither map, analyze resolves with a
\* single node of that name, definedIn undefined, no children and no
\* locations, and getStatistics of it is 1 component, depth 1, 1 leaf,
\* 0 files.
C6_UnknownRootIsEmptyResult ==
  UnknownRoot =>
    /\ hierarchy = [name |-> hierarchy.name, definedIn |-> Undefined,
                    usedIn |-> <<>>, locations |-> <<>>]
    /\ pc = "done" =>
         stats = [totalComponents |-> 1, maxDepth |-> 1, leafNodes |-> 1,
                  uniqueFiles |-> 0]

\* The run of a target the scan never met, over files that recorded facts.
C6_Witness ==
  /\ pc = "done"
  /\ UnknownRoot
  /\ hierarchy.name = "Nonexistent"
  /\ DOMAIN componentDefinitions # {}
  /\ DOMAIN componentUsages # {}

RECURSIVE MatchesGraph(_)
\* definedIn and locations of every expanded node are read off the maps.
MatchesGraph(node) ==
  \/ IsCircular(node)
  \/ /\ node.definedIn = MapGet(componentDefinitions, node.name)
     /\ node.locations =
          [i \in 1..Len(Edges(node.name)) |->
             [file |-> Edges(node.name)[i].file,
              line |-> Edges(node.name)[i].line]]
     /\ \A i \in 1..Len(node.usedIn) : MatchesGraph(node.usedIn[i])

\* Button defined in b.tsx, LoginForm in l.tsx, and the one edge
\* "Button used by LoginForm" at some line of l.tsx.
ButtonScenario(lineNo) ==
  /\ componentDefinitions =
       MapSet(MapSet(EmptyMap, "Button", "b.tsx"), "LoginForm", "l.tsx")
  /\ componentUsages =
       MapSet(EmptyMap, "Button",
              <<[component |-> "LoginForm", file |-> "l.tsx",
                 line |-> lineNo]>>)

\* C7: every expanded node has definedIn = componentDefinitions.get(name)
\* and, as locations, the (file, line) of every edge of its name in
\* insertion order; in the Button scenario the tree of Button is Button
\* with that one location and the single child LoginForm, which has no
\* children and no locations, and the statistics are 2, 2, 1, 2.
C7_NodesMatchGraph ==
  Resolved =>
    /\ MatchesGraph(hierarchy)
    /\ \A lineNo \in 1..(MaxVisits + DeepVisits + 2) :
         (ButtonScenario(lineNo) /\ hierarchy.name = "Button") =>
           /\ hierarchy =
                [name |-> "Button", definedIn |-> "b.tsx",
                 usedIn |-> <<[name |-> "LoginForm", definedIn |-> "l.tsx",
                               usedIn |-> <<>>, locations |-> <<>>]>>,
                 locations |-> <<[file |-> "l.tsx", line |-> lineNo]>>]
           /\ pc = "done" =>
                stats = [totalComponents |-> 2, maxDepth |-> 2,
                         leafNodes |-> 1, uniqueFiles |-> 2]

\* The Button scenario, resolved for Button and summarized.
C7_Witness ==
  /\ pc = "done"
  /\ hierarchy.name = "Button"
  /\ \E lineNo \in 1..(MaxVisits + DeepVisits + 2) : ButtonScenario(lineNo)

\* C8: a file that cannot be read is skipped and the scan goes on: the run
\* never ends because fs.readFile failed (only the root directory does that).
C8_ReadFailureSkipsFile == ~(pc = "fatal" /\ fatal = "readFile")

\* C9: a parse error or an exception of a visitor is caught in analyzeFile:
\* it is reported for the file being analyzed and ends no run; the step
\* that handles it returns to the loop of scanDirectory, which goes on with
\* the next entry, and leaves both maps as they were.
C9_FileFailureContained ==
  /\ [](pc = "fatal" => fatal \in {"readdir", "stat", "readFile"})
  /\ [][reported' # Null =>
          /\ reported' = files[idx]
          /\ pc' = "loop"
          /\ fatal' = Null
          /\ idx' = idx + 1
          /\ UNCHANGED graphVars]_vars

\* The second file has just failed and been reported, the facts of the
\* first file are in the maps, and the loop is about to go on.
C9_Witness ==
  /\ reported = "l.tsx"
  /\ pc = "loop"
  /\ analyzed = <<"b.tsx", "l.tsx">>
  /\ \E n \in DOMAIN componentUsages :
       \E i \in 1..Len(componentUsages[n]) : componentUsages[n][i].file = "b.tsx"

\* The files analyzeFile is working on: awaiting the read, or traversing.
InProgress == inflight \cup (IF file = Null THEN {} ELSE {file})

\* C10: at most one file is being read or analyzed at any time; once
\* getUsageHierarchy has run, the loop of scanDirectory is over, no file is
\* in progress and every eligible entry has been analyzed; and from then on
\* neither map changes.
C10_ResolveAfterScan ==
  /\ [](Cardinality(InProgress) <= 1)
  /\ [](Resolved =>
          /\ idx > Len(files)
          /\ InProgress = {}
          /\ \A i \in 1..Len(files) :
               files[i] \in eligible =>
                 \E j \in 1..Len(analyzed) : analyzed[j] = files[i])
  /\ [][Resolved => UNCHANGED graphVars]_vars

\* A run over two eligible files, both analyzed, resolved and summarized.
C10_Witness ==
  /\ pc = "done"
  /\ eligible = {"b.tsx", "l.tsx"}
  /\ analyzed = <<"b.tsx", "l.tsx">>
  /\ DOMAIN componentUsages # {}

RECURSIVE PathOnly(_, _)
\* Below `ancestors`, a node is the sentinel exactly when its name is one of
\* its ancestors; any other node is expanded in full, one child per edge of
\* its name, whatever the other branches of the tree hold.
PathOnly(node, ancestors) ==
  IF node.name \in ancestors
  THEN IsCircular(node)
  ELSE /\ ~IsCircular(node)
       /\ Len(node.usedIn) = Len(Edges(node.name))
       /\ \A i \in 1..Len(node.usedIn) :
            /\ node.usedIn[i].name = Edges(node.name)[i].component
            /\ PathOnly(node.usedIn[i], ancestors \cup {node.name})

RECURSIVE ExpandedNames(_)
\* The names of the expanded (non-sentinel) nodes of a tree.
ExpandedNames(node) ==
  IF IsCircular(node) THEN {}
  ELSE {node.name} \cup
       UNION {ExpandedNames(node.usedIn[i]) : i \in 1..Len(node.usedIn)}

\* C11: only the ancestors on the path from the root block a revisit: a
\* node is a "Circular Reference" sentinel exactly when its name is one of
\* its ancestors, so a component reached through two sibling branches
\* without being its own ancestor is expanded in full under both.
C11_OnlyAncestorsBlock == Resolved => PathOnly(hierarchy, {})

\* Two sibling branches of the root, of different components, that both
\* hold an expanded node of the same component.
C11_Witness ==
  /\ Resolved
  /\ \E i, j \in 1..Len(hierarchy.usedIn) :
       /\ hierarchy.usedIn[i].name # hierarchy.usedIn[j].name
       /\ ExpandedNames(hierarchy.usedIn[i])
            \cap ExpandedNames(hierarchy.usedIn[j]) # {}

RECURSIVE SentinelCount(_)
\* The "Circular Reference" sentinels of a tree.
SentinelCount(node) ==
  IF IsCircular(node) THEN 1
  ELSE LET below[i \in 0..Len(node.usedIn)] ==
             IF i = 0 THEN 0 ELSE below[i - 1] + SentinelCount(node.usedIn[i])
       IN below[Len(node.usedIn)]

\* C12: totalComponents is the number of distinct component names over the
\* nodes of the tree, plus one when the tree holds a "Circular Reference"
\* sentinel, however many sentinels it holds.
C12_SentinelCountedOnce ==
  pc = "done" =>
    stats.totalComponents =
      Cardinality(NamesIn(hierarchy)) + (IF HasSentinel(hierarchy) THEN 1 ELSE 0)

\* A summarized tree of two components with two sentinels: 3 is reported.
C12_Witness ==
  /\ pc = "done"
  /\ Cardinality(NamesIn(hierarchy)) = 2
  /\ SentinelCount(hierarchy) >= 2
  /\ stats.totalComponents = 3

\* The edge a reference at the current node gives when a definition is open.
EdgeHere == [component |-> currentComponent, file |-> file, line |-> line]

\* C13: while a file is traversed the cursor is empty or a definition opened
\* in this file, and every edge recorded in this file names a component
\* defined in this file; the cursor is empty when the traversal of a file
\* starts; it moves only when a definition is opened, to that definition,
\* and is never emptied; and an edge that is recorded is attributed to the
\* cursor, in the file and at the line of the reference.
C13_SingleCursorPerFile ==
  /\ [](pc = "visit" =>
          /\ currentComponent # Null =>
               MapGet(componentDefinitions, currentComponent) = file
          /\ \A n \in DOMAIN componentUsages :
               \A i \in 1..Len(componentUsages[n]) :
                 componentUsages[n][i].file = file =>
                   MapGet(componentDefinitions,
                          componentUsages[n][i].component) = file)
  /\ [][(pc = "await" /\ pc' = "visit") => currentComponent' = Null]_vars
  /\ [][(pc = "visit" /\ pc' = "visit") =>
          /\ componentDefinitions' # componentDefinitions =>
               /\ currentComponent' # Null
               /\ componentDefinitions' =
                    MapSet(componentDefinitions, currentComponent', file)
          /\ currentComponent' # currentComponent =>
               /\ currentComponent' # Null
               /\ MapGet(componentDefinitions', currentComponent') = file
          /\ \A n \in Names :
               usagesOf(componentUsages', n) # usagesOf(componentUsages, n) =>
                 /\ currentComponent # Null
                 /\ usagesOf(componentUsages', n) =
                      Append(usagesOf(componentUsages, n), EdgeHere)]_vars

\* The second file is being traversed and its first node, a reference seen
\* with no definition open, has left a key without edge, while the first
\* file opened a definition and recorded an edge for it.
C13_Witness ==
  /\ pc = "visit"
  /\ file = "l.tsx"
  /\ line = 2
  /\ currentComponent = Null
  /\ \E n \in DOMAIN componentUsages : componentUsages[n] = <<>>
  /\ \E n \in DOMAIN componentUsages :
       /\ Len(componentUsages[n]) = 1
       /\ componentUsages[n][1].file = "b.tsx"
       /\ MapGet(componentDefinitions, componentUsages[n][1].component) = "b.tsx"

\* The usages after a reference to usedName at the current node.
UsagesAfter(usedName) ==
  RecordUsage(componentUsages, usedName, currentComponent, file, line)

\* C14: at any node of a traversal, a PascalCase reference seen with no
\* definition open leaves the edges of every component as they are, and one
\* seen with a definition open appends the one edge (cursor, file, line) to
\* the edges of the referenced component and leaves the edges and the keys
\* of every other component as they are; a step that changes the usages is
\* such a reference and changes neither the definitions nor the cursor.
C14_ReferenceRecordsOneEdge ==
  /\ [](pc = "visit" =>
          \A usedName \in Names :
            /\ \A n \in Names \ {usedName} :
                 /\ usagesOf(UsagesAfter(usedName), n) = Edges(n)
                 /\ n \in DOMAIN UsagesAfter(usedName)
                      <=> n \in DOMAIN componentUsages
            /\ IF currentComponent = Null
               THEN usagesOf(UsagesAfter(usedName), usedName) = Edges(usedName)
               ELSE UsagesAfter(usedName)[usedName] =
                      Append(Edges(usedName), EdgeHere))
  /\ [][componentUsages' # componentUsages =>
          /\ pc = "visit"
          /\ \E usedName \in Names : componentUsages' = UsagesAfter(usedName)
          /\ UNCHANGED <<componentDefinitions, currentComponent>>]_vars

\* A traversal that met a reference before any definition was open, which
\* left a key without edge, and then one below a definition, which left an
\* edge.
C14_Witness ==
  /\ pc = "visit"
  /\ currentComponent # Null
  /\ \E n, m \in DOMAIN componentUsages :
       /\ componentUsages[n] = <<>>
       /\ Len(componentUsages[m]) = 1
       /\ componentUsages[m][1].component = currentComponent
       /\ componentUsages[m][1].file = file

\* C15: the step that runs getUsageHierarchy changes neither map, and the
\* step that runs getStatistics changes neither map nor the tree; resolving
\* the graph as it is afterwards gives the same tree again, and summarizing
\* the tree as it is afterwards gives the same statistics again.
C15_ResolveAndSummarizeReadOnly ==
  /\ [][(pc = "loop" /\ (pc' = "resolved" \/ fatal' = "RangeError")) =>
          UNCHANGED graphVars]_vars
  /\ [][(pc = "resolved" /\ pc' = "done") =>
          UNCHANGED <<graphVars, hierarchy>>]_vars
  /\ [](Resolved =>
          hierarchy = getUsageHierarchy(hierarchy.name, componentUsages,
                                        componentDefinitions, {}, 1))
  /\ [](pc = "done" => stats = getStatistics(hierarchy))

\* A summarized tree whose root has usages and a child without any: for the
\* child, resolve made a default empty Set, and no key was stored for it.
C15_Witness ==
  /\ pc = "done"
  /\ hierarchy.name \in DOMAIN componentUsages
  /\ \E i \in 1..Len(hierarchy.usedIn) :
       /\ hierarchy.usedIn[i].name \notin DOMAIN componentUsages
       /\ hierarchy.usedIn[i].usedIn = <<>>

RECURSIVE Aligned(_)
\* Children and locations of every expanded node go edge by edge.
Aligned(node) ==
  \/ IsCircular(node)
  \/ /\ Len(node.usedIn) = Len(Edges(node.name))
     /\ Len(node.locations) = Len(Edges(node.name))
     /\ \A i \in 1..Len(Edges(node.name)) :
          /\ node.usedIn[i].name = Edges(node.name)[i].component
          /\ node.locations[i] = [file |-> Edges(node.name)[i].file,
                                  line |-> Edges(node.name)[i].line]
          /\ Aligned(node.usedIn[i])

\* C16: in every expanded node of a resolved tree, usedIn and locations are
\* as long as the edges of the node's name, and at each position the
\* location is the (file, line) of the edge whose using component is the
\* name of the child at that position.
C16_ChildrenAlignedWithLocations == Resolved => Aligned(hierarchy)

\* A root used by two different components at two different lines.
C16_Witness ==
  /\ Resolved
  /\ Len(hierarchy.usedIn) = 2
  /\ hierarchy.usedIn[1].name # hierarchy.usedIn[2].name
  /\ hierarchy.locations[1] # hierarchy.locations[2]
====
